---------------------------- MODULE Spec2Model ----------------------------
(***************************************************************************)
(* A model of unit_conversion.py: the two lookup tables, convert(), and    *)
(* the two front ends cli() and api_convert().                             *)
(*                                                                         *)
(* Numbers.  Python computes in binary floating point; the model computes  *)
(* in exact rational arithmetic (the "real number" reading of the code:    *)
(* the same operations in the same order, without the rounding of each     *)
(* step).  TLC's integers are 32 bits wide and the tables hold factors as  *)
(* large as 9.461e12, so naturals are kept as little-endian sequences of   *)
(* base-10000 digits.                                                      *)
(*                                                                         *)
(* Strings.  A Python str is a sequence of one-character strings, so that  *)
(* str.lower() and the f-string of the error message are computed          *)
(* character by character.                                                 *)
(***************************************************************************)
EXTENDS Integers, Sequences, FiniteSets, TLC

VARIABLES
    CONVERSION_FACTORS,       \* the module-level dict of linear factors
    TEMPERATURE_CONVERSIONS,  \* the module-level dict of temperature lambdas
    pc,                       \* front ends: where each caller stands
    req,                      \* front ends: the parsed arguments of each caller
    resp,                     \* front ends: what each caller's handler produced
    call                      \* a client that calls convert() directly

vars == <<CONVERSION_FACTORS, TEMPERATURE_CONVERSIONS, pc, req, resp, call>>

tables == <<CONVERSION_FACTORS, TEMPERATURE_CONVERSIONS>>

-----------------------------------------------------------------------------
(* Exact arithmetic: naturals of any size.                                 *)

Base == 100 * 100

RECURSIVE Strip(_)
\* The digits without the zeros at the most significant end.
Strip(s) ==
    IF s = <<>> THEN <<>>
    ELSE IF s[Len(s)] = 0 THEN Strip(SubSeq(s, 1, Len(s) - 1))
    ELSE s

RECURSIVE NatToBig(_)
NatToBig(n) ==
    IF n = 0 THEN <<>> ELSE <<n % Base>> \o NatToBig(n \div Base)

RECURSIVE BAddC(_, _, _)
BAddC(a, b, carry) ==
    IF a = <<>> /\ b = <<>>
    THEN (IF carry = 0 THEN <<>> ELSE <<carry>>)
    ELSE LET x == IF a = <<>> THEN 0 ELSE Head(a)
             y == IF b = <<>> THEN 0 ELSE Head(b)
             s == x + y + carry
         IN  <<s % Base>> \o BAddC(IF a = <<>> THEN <<>> ELSE Tail(a),
                                   IF b = <<>> THEN <<>> ELSE Tail(b),
                                   s \div Base)

BAdd(a, b) == BAddC(a, b, 0)

RECURSIVE BSubB(_, _, _)
\* a - b - borrow, for a >= b + borrow.
BSubB(a, b, borrow) ==
    IF a = <<>> THEN <<>>
    ELSE LET y == IF b = <<>> THEN 0 ELSE Head(b)
             d == Head(a) - y - borrow
         IN  <<IF d < 0 THEN d + Base ELSE d>>
                 \o BSubB(Tail(a), IF b = <<>> THEN <<>> ELSE Tail(b),
                          IF d < 0 THEN 1 ELSE 0)

BSub(a, b) == Strip(BSubB(a, b, 0))

RECURSIVE BMulDigit(_, _, _)
BMulDigit(a, k, carry) ==
    IF a = <<>>
    THEN (IF carry = 0 THEN <<>> ELSE <<carry>>)
    ELSE LET p == Head(a) * k + carry
         IN  <<p % Base>> \o BMulDigit(Tail(a), k, p \div Base)

RECURSIVE BMul(_, _)
BMul(a, b) ==
    IF a = <<>> \/ b = <<>> THEN <<>>
    ELSE Strip(BAdd(BMulDigit(a, Head(b), 0), <<0>> \o BMul(a, Tail(b))))

RECURSIVE BCmpFrom(_, _, _)
\* The order of two naturals of the same length, decided from digit i down.
BCmpFrom(a, b, i) ==
    IF i = 0 THEN 0
    ELSE IF a[i] < b[i] THEN -1
    ELSE IF a[i] > b[i] THEN 1
    ELSE BCmpFrom(a, b, i - 1)

\* -1, 0 or 1 as a < b, a = b or a > b.
BCmp(a, b) ==
    IF Len(a) < Len(b) THEN -1
    ELSE IF Len(a) > Len(b) THEN 1
    ELSE BCmpFrom(a, b, Len(a))

RECURSIVE BPow10(_)
BPow10(k) == IF k = 0 THEN <<1>> ELSE BMulDigit(BPow10(k - 1), 10, 0)

-----------------------------------------------------------------------------
(* Signed integers [sg, mag] and rationals [num, den], den > 0.            *)

Abs(n) == IF n < 0 THEN -n ELSE n

Sign(n) == IF n < 0 THEN -1 ELSE IF n = 0 THEN 0 ELSE 1

IMake(sg, mag) == IF mag = <<>> \/ sg = 0 THEN [sg |-> 0, mag |-> <<>>]
                  ELSE [sg |-> sg, mag |-> mag]

IFromInt(n) == IMake(Sign(n), NatToBig(Abs(n)))

IMul(a, b) == IMake(a.sg * b.sg, BMul(a.mag, b.mag))

INeg(a) == IMake(-a.sg, a.mag)

IAdd(a, b) ==
    IF a.sg = 0 THEN b
    ELSE IF b.sg = 0 THEN a
    ELSE IF a.sg = b.sg THEN IMake(a.sg, BAdd(a.mag, b.mag))
    ELSE LET c == BCmp(a.mag, b.mag)
         IN  IF c = 0 THEN IMake(0, <<>>)
             ELSE IF c > 0 THEN IMake(a.sg, BSub(a.mag, b.mag))
             ELSE IMake(b.sg, BSub(b.mag, a.mag))

INat(mag) == IMake(1, mag)

Rat(num, den) == [num |-> num, den |-> den]

RInt(n) == Rat(IFromInt(n), <<1>>)

\* The decimal literal m * 10^e, e.g. 39.3701 is Lit(393701, -4).
Lit(m, e) ==
    IF e >= 0 THEN Rat(IMul(IFromInt(m), INat(BPow10(e))), <<1>>)
    ELSE Rat(IFromInt(m), BPow10(-e))

RMul(a, b) == Rat(IMul(a.num, b.num), BMul(a.den, b.den))

\* a / b for b # 0.
RDiv(a, b) == Rat(IMake(a.num.sg * b.num.sg, BMul(a.num.mag, b.den)),
                  BMul(a.den, b.num.mag))

RAdd(a, b) == Rat(IAdd(IMul(a.num, INat(b.den)), IMul(b.num, INat(a.den))),
                  BMul(a.den, b.den))

RNeg(a) == Rat(INeg(a.num), a.den)

RSub(a, b) == RAdd(a, RNeg(b))

RSign(a) == a.num.sg

RAbs(a) == Rat(IMake(Abs(a.num.sg), a.num.mag), a.den)

\* Equality and order of the numbers two rationals stand for.
REq(a, b) == RSign(RSub(a, b)) = 0

RLe(a, b) == RSign(RSub(a, b)) <= 0

-----------------------------------------------------------------------------
(* Strings.                                                                *)

UpperLetters == <<"A", "B", "C", "D", "E", "F", "G", "H", "I", "J", "K", "L", "M",
                  "N", "O", "P", "Q", "R", "S", "T", "U", "V", "W", "X", "Y", "Z">>

LowerLetters == <<"a", "b", "c", "d", "e", "f", "g", "h", "i", "j", "k", "l", "m",
                  "n", "o", "p", "q", "r", "s", "t", "u", "v", "w", "x", "y", "z">>

\* One character of str.lower(): a cased letter maps to its lower case, every
\* other character (a digit, "-", "/", a space) to itself.
lower_char(ch) ==
    IF \E i \in 1..Len(UpperLetters) : UpperLetters[i] = ch
    THEN LowerLetters[CHOOSE i \in 1..Len(UpperLetters) : UpperLetters[i] = ch]
    ELSE ch

RECURSIVE lstrip(_)
lstrip(s) == IF s # <<>> /\ Head(s) = " " THEN lstrip(Tail(s)) ELSE s

RECURSIVE rstrip(_)
rstrip(s) ==
    IF s # <<>> /\ s[Len(s)] = " " THEN rstrip(SubSeq(s, 1, Len(s) - 1)) ELSE s

\* str.strip() of blanks, which convert() never calls.
strip(s) == rstrip(lstrip(s))

\* A plausible slip: the normalisation left out.
lower_omitted(s) == s

\* str.lower()
lower(s) == [i \in 1..Len(s) |-> lower_char(s[i])]

\* The f-string of the ValueError:
\*   f"Conversion from '{from_unit}' to '{to_unit}' is not supported."
error_message(from_unit, to_unit) ==
    <<"C", "o", "n", "v", "e", "r", "s", "i", "o", "n", " ",
      "f", "r", "o", "m", " ", "'">>
    \o from_unit
    \o <<"'", " ", "t", "o", " ", "'">>
    \o to_unit
    \o <<"'", " ", "i", "s", " ", "n", "o", "t", " ",
         "s", "u", "p", "p", "o", "r", "t", "e", "d", ".">>

-----------------------------------------------------------------------------
(* The tables as the module sets them at import.                           *)

\* ("m", "ft"): 3.28084, ("ft", "m"): 0.3048 with two digits transposed.
MetreFootFactorsTransposed ==
       (<<<<"m">>, <<"f", "t">>>> :> Lit(328084, -5))
    @@ (<<<<"f", "t">>, <<"m">>>> :> Lit(3084, -4))

MetreFootFactors ==
       (<<<<"m">>, <<"f", "t">>>> :> Lit(328084, -5))
    @@ (<<<<"f", "t">>, <<"m">>>> :> Lit(3048, -4))

\* # Length
LengthFactors ==
       (<<<<"m">>, <<"c", "m">>>> :> Lit(100, 0))
    @@ (<<<<"c", "m">>, <<"m">>>> :> Lit(1, -2))
    @@ (<<<<"m">>, <<"k", "m">>>> :> Lit(1, -3))
    @@ (<<<<"k", "m">>, <<"m">>>> :> Lit(1000, 0))
    @@ (<<<<"m">>, <<"i", "n">>>> :> Lit(393701, -4))
    @@ (<<<<"i", "n">>, <<"m">>>> :> RDiv(RInt(1), Lit(393701, -4)))
    @@ MetreFootFactors
    @@ (<<<<"k", "m">>, <<"m", "i">>>> :> Lit(621371, -6))
    @@ (<<<<"m", "i">>, <<"k", "m">>>> :> Lit(160934, -5))
    @@ (<<<<"y", "d">>, <<"f", "t">>>> :> Lit(3, 0))
    @@ (<<<<"f", "t">>, <<"y", "d">>>> :> RDiv(RInt(1), Lit(3, 0)))
    @@ (<<<<"i", "n">>, <<"f", "t">>>> :> RDiv(RInt(1), Lit(12, 0)))
    @@ (<<<<"f", "t">>, <<"i", "n">>>> :> Lit(12, 0))
    @@ (<<<<"m", "i">>, <<"y", "d">>>> :> Lit(1760, 0))
    @@ (<<<<"y", "d">>, <<"m", "i">>>> :> RDiv(RInt(1), Lit(1760, 0)))
    @@ (<<<<"n", "m">>, <<"m">>>> :> Lit(1, -9))
    @@ (<<<<"m">>, <<"n", "m">>>> :> Lit(1, 9))
    @@ (<<<<"a", "u">>, <<"k", "m">>>> :> Lit(1495978707, -1))
    @@ (<<<<"k", "m">>, <<"a", "u">>>> :> RDiv(RInt(1), Lit(1495978707, -1)))
    @@ (<<<<"l", "y">>, <<"k", "m">>>> :> Lit(9461, 9))
    @@ (<<<<"k", "m">>, <<"l", "y">>>> :> RDiv(RInt(1), Lit(9461, 9)))

\* # Mass
MassFactors ==
       (<<<<"k", "g">>, <<"g">>>> :> Lit(1000, 0))
    @@ (<<<<"g">>, <<"k", "g">>>> :> Lit(1, -3))
    @@ (<<<<"k", "g">>, <<"l", "b">>>> :> Lit(220462, -5))
    @@ (<<<<"l", "b">>, <<"k", "g">>>> :> Lit(453592, -6))
    @@ (<<<<"g">>, <<"m", "g">>>> :> Lit(1000, 0))
    @@ (<<<<"m", "g">>, <<"g">>>> :> Lit(1, -3))
    @@ (<<<<"o", "z">>, <<"g">>>> :> Lit(283495, -4))
    @@ (<<<<"g">>, <<"o", "z">>>> :> RDiv(RInt(1), Lit(283495, -4)))
    @@ (<<<<"l", "b">>, <<"o", "z">>>> :> Lit(16, 0))
    @@ (<<<<"o", "z">>, <<"l", "b">>>> :> RDiv(RInt(1), Lit(16, 0)))
    @@ (<<<<"t", "o", "n">>, <<"k", "g">>>> :> Lit(1000, 0))
    @@ (<<<<"k", "g">>, <<"t", "o", "n">>>> :> RDiv(RInt(1), Lit(1000, 0)))

\* # Derived Units: # Force
ForceFactors ==
       (<<<<"n">>, <<"l", "b", "f">>>> :> Lit(224809, -6))
    @@ (<<<<"l", "b", "f">>, <<"n">>>> :> Lit(444822, -5))

\* # Derived Units: # Torque
TorqueFactors ==
       (<<<<"n", "m">>, <<"l", "b", "-", "f", "t">>>> :> Lit(737562, -6))
    @@ (<<<<"l", "b", "-", "f", "t">>, <<"n", "m">>>> :> Lit(135582, -5))

\* # Derived Units: # Density
DensityFactors ==
       (<<<<"k", "g", "/", "m", "3">>, <<"l", "b", "/", "f", "t", "3">>>>
            :> Lit(62428, -6))
    @@ (<<<<"l", "b", "/", "f", "t", "3">>, <<"k", "g", "/", "m", "3">>>>
            :> Lit(160185, -4))

\* The dict literal CONVERSION_FACTORS.  No key is written twice, so the
\* order of the sections does not matter.
InitialConversionFactors ==
    LengthFactors @@ MassFactors @@ ForceFactors @@ TorqueFactors
        @@ DensityFactors

\* The dict literal TEMPERATURE_CONVERSIONS: each key maps to the name of
\* its lambda, which apply_lambda evaluates.
InitialTemperatureConversions ==
       (<<<<"c">>, <<"f">>>> :> "c_f")
    @@ (<<<<"f">>, <<"c">>>> :> "f_c")
    @@ (<<<<"c">>, <<"k">>>> :> "c_k")
    @@ (<<<<"k">>, <<"c">>>> :> "k_c")
    @@ (<<<<"f">>, <<"k">>>> :> "f_k")
    @@ (<<<<"k">>, <<"f">>>> :> "k_f")

\* lambda v: (v * 9/5) + 32
lambda_c_f(v) == RAdd(RDiv(RMul(v, RInt(9)), RInt(5)), RInt(32))

\* A plausible slip: the scale of the opposite direction.
lambda_f_c_wrong_scale(v) == RDiv(RMul(RSub(v, RInt(32)), RInt(9)), RInt(5))

\* lambda v: (v - 32) * 5/9
lambda_f_c(v) == RDiv(RMul(RSub(v, RInt(32)), RInt(5)), RInt(9))

\* lambda v: v + 273.15
lambda_c_k(v) == RAdd(v, Lit(27315, -2))

\* lambda v: v - 273.15
lambda_k_c(v) == RSub(v, Lit(27315, -2))

\* lambda v: (v - 32) * 5/9 + 273.15
lambda_f_k(v) ==
    RAdd(RDiv(RMul(RSub(v, RInt(32)), RInt(5)), RInt(9)), Lit(27315, -2))

\* lambda v: (v - 273.15) * 9/5 + 32
lambda_k_f(v) ==
    RAdd(RDiv(RMul(RSub(v, Lit(27315, -2)), RInt(9)), RInt(5)), RInt(32))

\* TEMPERATURE_CONVERSIONS[key](value)
apply_lambda(name, v) ==
    CASE name = "c_f" -> lambda_c_f(v)
      [] name = "f_c" -> lambda_f_c(v)
      [] name = "c_k" -> lambda_c_k(v)
      [] name = "k_c" -> lambda_k_c(v)
      [] name = "f_k" -> lambda_f_k(v)
      [] name = "k_f" -> lambda_k_f(v)

-----------------------------------------------------------------------------
(* convert()                                                               *)

LINEAR == "CONVERSION_FACTORS"

TEMPERATURE == "TEMPERATURE_CONVERSIONS"

\* A plausible slip: the factor applied in the wrong direction.
linear_result_divides(value, factor) == RDiv(value, factor)

\* value * CONVERSION_FACTORS[(from_unit, to_unit)]
linear_result(value, factor) == RMul(value, factor)

\* return of a number; lookups records which dicts the call looked into.
Returned(val, lookups) ==
    [kind |-> "return", val |-> val, lookups |-> lookups]

\* raise ValueError(msg)
Raised(msg, lookups) ==
    [kind |-> "raise", exc |-> "ValueError", msg |-> msg, lookups |-> lookups]

\* A plausible slip: the message built from the arguments as typed.
convert_in_raw_message(factors, temperatures, value, from_unit, to_unit) ==
    LET key == <<lower(from_unit), lower(to_unit)>>
    IN  IF key \in DOMAIN factors
        THEN Returned(linear_result(value, factors[key]), <<LINEAR>>)
        ELSE IF key \in DOMAIN temperatures
        THEN Returned(apply_lambda(temperatures[key], value),
                      <<LINEAR, TEMPERATURE>>)
        ELSE Raised(error_message(from_unit, to_unit), <<LINEAR, TEMPERATURE>>)

\* A plausible slip: the temperature dict looked up first.
convert_in_temperature_first(factors, temperatures, value, from_unit, to_unit) ==
    LET key == <<lower(from_unit), lower(to_unit)>>
    IN  IF key \in DOMAIN temperatures
        THEN Returned(apply_lambda(temperatures[key], value), <<TEMPERATURE>>)
        ELSE IF key \in DOMAIN factors
        THEN Returned(linear_result(value, factors[key]),
                      <<TEMPERATURE, LINEAR>>)
        ELSE Raised(error_message(key[1], key[2]), <<TEMPERATURE, LINEAR>>)

\* A plausible extension: a pair that is no key converted through one
\* intermediate unit of the linear dict.
convert_in_chained(factors, temperatures, value, from_unit, to_unit) ==
    LET key == <<lower(from_unit), lower(to_unit)>>
        via == {k \in DOMAIN factors :
                    k[1] = key[1] /\ <<k[2], key[2]>> \in DOMAIN factors}
    IN  IF key \in DOMAIN factors
        THEN Returned(linear_result(value, factors[key]), <<LINEAR>>)
        ELSE IF key \in DOMAIN temperatures
        THEN Returned(apply_lambda(temperatures[key], value),
                      <<LINEAR, TEMPERATURE>>)
        ELSE IF via # {}
        THEN LET k == CHOOSE k \in via : TRUE
             IN  Returned(linear_result(linear_result(value, factors[k]),
                                        factors[<<k[2], key[2]>>]),
                          <<LINEAR, TEMPERATURE, LINEAR>>)
        ELSE Raised(error_message(key[1], key[2]), <<LINEAR, TEMPERATURE>>)

\* The body of convert() over given contents of the two dicts.
convert_in(factors, temperatures, value, from_unit, to_unit) ==
    LET key == <<lower(from_unit), lower(to_unit)>>
    IN  IF key \in DOMAIN factors
        THEN Returned(linear_result(value, factors[key]), <<LINEAR>>)
        ELSE IF key \in DOMAIN temperatures
        THEN Returned(apply_lambda(temperatures[key], value),
                      <<LINEAR, TEMPERATURE>>)
        ELSE Raised(error_message(key[1], key[2]), <<LINEAR, TEMPERATURE>>)

\* convert(value, from_unit, to_unit) in the current state.
convert(value, from_unit, to_unit) ==
    convert_in(CONVERSION_FACTORS, TEMPERATURE_CONVERSIONS,
               value, from_unit, to_unit)

-----------------------------------------------------------------------------
(* The arguments the model calls convert() with.                           *)

MaxMantissa == 3

MaxExponent == 12

MaxHops == 2

\* Finite values m * 10^e: zero, both signs, fractions, small and large
\* magnitudes.
Values ==
    {Lit(m, e) : m \in -MaxMantissa..MaxMantissa, e \in {-2, 0, 2, MaxExponent}}

Keys == DOMAIN InitialConversionFactors \cup DOMAIN InitialTemperatureConversions

\* The unit codes of the two dicts.
Units == {k[1] : k \in Keys} \cup {k[2] : k \in Keys}

upper_char(ch) ==
    IF \E i \in 1..Len(LowerLetters) : LowerLetters[i] = ch
    THEN UpperLetters[CHOOSE i \in 1..Len(LowerLetters) : LowerLetters[i] = ch]
    ELSE ch

upper(s) == [i \in 1..Len(s) |-> upper_char(s[i])]

\* Unit strings as a caller may type them: the codes, in lower, upper and
\* mixed case, with a blank before or after, and codes of no dict.
UnitInputs ==
    Units \cup {upper(u) : u \in Units}
          \cup {<<"K", "m">>, <<"l", "B", "-", "f", "T">>, <<"L", "y">>}
          \cup {<<" ", "m">>, <<"m", " ">>, <<" ", "C">>, <<"c", "m", " ">>}
          \cup {<<"x", "x">>, <<"X", "X">>, <<"y", "y">>, <<"Y", "y">>}

Args(value, from_unit, to_unit) ==
    [value |-> value, from_unit |-> from_unit, to_unit |-> to_unit]

\* Every value with every pair of codes, and two values with every pair of
\* typed unit strings.
ArgSpace ==
    {Args(v, f, t) : v \in Values, f \in Units, t \in Units}
        \cup {Args(v, f, t) : v \in {RInt(1), RInt(5)},
                              f \in UnitInputs, t \in UnitInputs}

-----------------------------------------------------------------------------
(* A client of convert(): it calls, gets the outcome, and may feed a       *)
(* result and its target unit to a next call.                              *)

Idle == [stage |-> "idle"]

ClientCall ==
    /\ call.stage = "idle"
    /\ \E a \in ArgSpace :
           call' = [stage |-> "called", value |-> a.value,
                    from_unit |-> a.from_unit, to_unit |-> a.to_unit,
                    hops |-> 0, first |-> a]
    /\ UNCHANGED <<tables, pc, req, resp>>

ClientConvert ==
    /\ call.stage = "called"
    /\ call' = [stage |-> "returned", value |-> call.value,
                from_unit |-> call.from_unit, to_unit |-> call.to_unit,
                hops |-> call.hops, first |-> call.first,
                out |-> convert(call.value, call.from_unit, call.to_unit)]
    /\ UNCHANGED <<tables, pc, req, resp>>

ClientChain ==
    /\ call.stage = "returned"
    /\ call.out.kind = "return"
    /\ call.hops < MaxHops
    /\ \E to_unit \in Units :
           call' = [stage |-> "called", value |-> call.out.val,
                    from_unit |-> call.to_unit, to_unit |-> to_unit,
                    hops |-> call.hops + 1, first |-> call.first]
    /\ UNCHANGED <<tables, pc, req, resp>>

ClientDone ==
    /\ call.stage = "returned"
    /\ call' = Idle
    /\ UNCHANGED <<tables, pc, req, resp>>

-----------------------------------------------------------------------------
(* The front ends: cli() after argparse, and the GET /convert handler.     *)
(* Several callers may be between their arrival and their handler at once. *)

NumCallers == 2

Callers == 1..NumCallers

\* The calls the front ends are driven with.
FrontArgs ==
    { Args(RInt(5), <<"M">>, <<"C", "M">>),
      Args(RInt(5), <<"m">>, <<"c", "m">>),
      Args(RInt(1), <<"l", "y">>, <<"m">>),
      Args(RInt(1), <<"X", "X">>, <<"y", "y">>),
      Args(RInt(1), <<"x", "x">>, <<"y", "y">>),
      Args(RInt(0), <<"c">>, <<"f">>),
      Args(RInt(100), <<"c">>, <<"f">>),
      Args(RInt(1), <<" ", "m">>, <<"c", "m">>) }

NoRequest == [value |-> RInt(0), from_unit |-> <<>>, to_unit |-> <<>>]

NoResponse == [kind |-> "none"]

\* print(e): the text of the exception.
TextLine(chars) == [kind |-> "text", chars |-> chars]

\* print(f"{args.value} {args.from_unit} = {result} {args.to_unit}"): the
\* fields of the line, the two numbers not rendered into digits.
ResultLine(a, result) ==
    [kind |-> "result", value |-> a.value, from_unit |-> a.from_unit,
     result |-> result, to_unit |-> a.to_unit]

\* The process after cli() returned: the interpreter exits with code 0.
Exited(stdout) == [kind |-> "exit", code |-> 0, stdout |-> stdout]

\* An exception no except clause of the handler matches leaves it: the
\* interpreter prints a traceback and exits with code 1, the server answers
\* 500.
Crashed(exc) == [kind |-> "exit", code |-> 1, stdout |-> <<>>, uncaught |-> exc]

\* The handler returned a dict: the framework sends it as JSON with 200.
Responded(body) == [kind |-> "response", status |-> 200, body |-> body]

ServerError(exc) == [kind |-> "response", status |-> 500, uncaught |-> exc]

\* argparse has parsed the three positional arguments.
ParseArgs(c) ==
    /\ pc[c] = "idle"
    /\ \E a \in FrontArgs : req' = [req EXCEPT ![c] = a]
    /\ pc' = [pc EXCEPT ![c] = "cli"]
    /\ UNCHANGED <<tables, resp, call>>

\* GET /convert?value=..&from_unit=..&to_unit=.. is routed to the handler.
Request(c) ==
    /\ pc[c] = "idle"
    /\ \E a \in FrontArgs : req' = [req EXCEPT ![c] = a]
    /\ pc' = [pc EXCEPT ![c] = "api_convert"]
    /\ UNCHANGED <<tables, resp, call>>

\* A plausible slip: the except clause names the wrong exception.
cli_catches_key_error(c) ==
    /\ pc[c] = "cli"
    /\ LET out == convert(req[c].value, req[c].from_unit, req[c].to_unit)
       IN  resp' = [resp EXCEPT ![c] =
                IF out.kind = "return"
                THEN Exited(<<ResultLine(req[c], out.val)>>)
                ELSE IF out.exc = "KeyError"
                THEN Exited(<<TextLine(out.msg)>>)
                ELSE Crashed(out.exc)]
    /\ pc' = [pc EXCEPT ![c] = "done"]
    /\ UNCHANGED <<tables, req, call>>

\* The try statement of cli().
cli(c) ==
    /\ pc[c] = "cli"
    /\ LET out == convert(req[c].value, req[c].from_unit, req[c].to_unit)
       IN  resp' = [resp EXCEPT ![c] =
                IF out.kind = "return"
                THEN Exited(<<ResultLine(req[c], out.val)>>)
                ELSE IF out.exc = "ValueError"
                THEN Exited(<<TextLine(out.msg)>>)
                ELSE Crashed(out.exc)]
    /\ pc' = [pc EXCEPT ![c] = "done"]
    /\ UNCHANGED <<tables, req, call>>

\* A plausible slip: a temperature result kept as a factor of the linear
\* dict, so that the next call of the pair takes the first branch.
api_convert_memoising(c) ==
    /\ pc[c] = "api_convert"
    /\ LET out == convert(req[c].value, req[c].from_unit, req[c].to_unit)
           key == <<lower(req[c].from_unit), lower(req[c].to_unit)>>
       IN  /\ resp' = [resp EXCEPT ![c] =
                    IF out.kind = "return"
                    THEN Responded([result |-> out.val])
                    ELSE IF out.exc = "ValueError"
                    THEN Responded([error |-> out.msg])
                    ELSE ServerError(out.exc)]
           /\ CONVERSION_FACTORS' =
                    IF /\ out.kind = "return"
                       /\ key \notin DOMAIN CONVERSION_FACTORS
                       /\ RSign(req[c].value) # 0
                    THEN (key :> RDiv(out.val, req[c].value))
                             @@ CONVERSION_FACTORS
                    ELSE CONVERSION_FACTORS
    /\ pc' = [pc EXCEPT ![c] = "done"]
    /\ UNCHANGED <<TEMPERATURE_CONVERSIONS, req, call>>

\* The body of api_convert().
api_convert(c) ==
    /\ pc[c] = "api_convert"
    /\ LET out == convert(req[c].value, req[c].from_unit, req[c].to_unit)
       IN  resp' = [resp EXCEPT ![c] =
                IF out.kind = "return"
                THEN Responded([result |-> out.val])
                ELSE IF out.exc = "ValueError"
                THEN Responded([error |-> out.msg])
                ELSE ServerError(out.exc)]
    /\ pc' = [pc EXCEPT ![c] = "done"]
    /\ UNCHANGED <<tables, req, call>>

\* The process is gone, or the response is sent: the caller may come again.
Finish(c) ==
    /\ pc[c] = "done"
    /\ pc' = [pc EXCEPT ![c] = "idle"]
    /\ req' = [req EXCEPT ![c] = NoRequest]
    /\ resp' = [resp EXCEPT ![c] = NoResponse]
    /\ UNCHANGED <<tables, call>>

-----------------------------------------------------------------------------
(* The specifications.                                                     *)

Init ==
    /\ CONVERSION_FACTORS = InitialConversionFactors
    /\ TEMPERATURE_CONVERSIONS = InitialTemperatureConversions
    /\ pc = [c \in Callers |-> "idle"]
    /\ req = [c \in Callers |-> NoRequest]
    /\ resp = [c \in Callers |-> NoResponse]
    /\ call = Idle

\* The front ends, their callers interleaved.
Next ==
    \E c \in Callers :
        \/ ParseArgs(c)
        \/ Request(c)
        \/ cli(c)
        \/ api_convert(c)
        \/ Finish(c)

Spec == Init /\ [][Next]_vars

\* convert() called directly, one call at a time, over the wide argument
\* space.
NextConvert ==
    \/ ClientCall
    \/ ClientConvert
    \/ ClientChain
    \/ ClientDone

SpecConvert == Init /\ [][NextConvert]_vars

-----------------------------------------------------------------------------
(* What the claims speak of.                                               *)

\* Case folding, written apart from lower(): the claims say what the
\* normal form of a unit string is, the model says how convert() gets it.
Folded(s) ==
    [i \in 1..Len(s) |->
        LET n == {j \in 1..Len(UpperLetters) : UpperLetters[j] = s[i]}
        IN  IF n = {} THEN s[i] ELSE LowerLetters[CHOOSE j \in n : TRUE]]

FoldedKey(from_unit, to_unit) == <<Folded(from_unit), Folded(to_unit)>>

\* The direct call has returned or raised.
Returned0 == call.stage = "returned"

CallKey == <<call.from_unit, call.to_unit>>

\* "Conversion from 'xx' to 'yy' is not supported."
MessageXxYy ==
    <<"C", "o", "n", "v", "e", "r", "s", "i", "o", "n", " ",
      "f", "r", "o", "m", " ", "'", "x", "x", "'", " ", "t", "o", " ",
      "'", "y", "y", "'", " ", "i", "s", " ", "n", "o", "t", " ",
      "s", "u", "p", "p", "o", "r", "t", "e", "d", ".">>

\* The quantity a key stands under: the comment over its section of
\* CONVERSION_FACTORS, or the temperature dict.
QuantityOf(key) ==
    IF key \in DOMAIN LengthFactors THEN "length"
    ELSE IF key \in DOMAIN MassFactors THEN "mass"
    ELSE IF key \in DOMAIN ForceFactors THEN "force"
    ELSE IF key \in DOMAIN TorqueFactors THEN "torque"
    ELSE IF key \in DOMAIN DensityFactors THEN "density"
    ELSE IF key \in DOMAIN InitialTemperatureConversions THEN "temperature"
    ELSE "none"

-----------------------------------------------------------------------------
(* The claims, under SpecConvert.                                          *)

\* C1: for every pair that is a key of the linear dict and every finite
\* value x (zero, negative, large), convert(x, u1, u2) returns x times the
\* factor stored for the pair, and does not look into the temperature dict.
C1_LinearProduct ==
    (Returned0 /\ CallKey \in DOMAIN InitialConversionFactors)
        => /\ call.out.kind = "return"
           /\ REq(call.out.val,
                  RMul(call.value, InitialConversionFactors[CallKey]))
           /\ call.out.lookups = <<LINEAR>>

\* C1's case: -3e12 light years converted to km, -2.8383e25.
C1_Witness ==
    /\ Returned0
    /\ call.hops = 0
    /\ call.value = Lit(-3, 12)
    /\ CallKey = <<<<"l", "y">>, <<"k", "m">>>>
    /\ call.out.kind = "return"
    /\ REq(call.out.val, Lit(-28383, 21))

\* The affine formula the spec lists for a temperature pair, as scale and
\* offset.
ListedFormula(key, x) ==
    CASE key = <<<<"c">>, <<"f">>>> ->
            RAdd(RMul(x, RDiv(RInt(9), RInt(5))), RInt(32))
      [] key = <<<<"f">>, <<"c">>>> ->
            RMul(RSub(x, RInt(32)), RDiv(RInt(5), RInt(9)))
      [] key = <<<<"c">>, <<"k">>>> -> RAdd(x, Lit(27315, -2))
      [] key = <<<<"k">>, <<"c">>>> -> RSub(x, Lit(27315, -2))
      [] key = <<<<"f">>, <<"k">>>> ->
            RAdd(RMul(RSub(x, RInt(32)), RDiv(RInt(5), RInt(9))),
                 Lit(27315, -2))
      [] key = <<<<"k">>, <<"f">>>> ->
            RAdd(RMul(RSub(x, Lit(27315, -2)), RDiv(RInt(9), RInt(5))),
                 RInt(32))

\* C2: for each of the six temperature pairs and every value x,
\* convert(x, u1, u2) equals the affine formula listed for the pair;
\* convert(0, "c", "f") is 32 and convert(100, "c", "f") is 212.
C2_TemperatureFormula ==
    (Returned0 /\ CallKey \in DOMAIN InitialTemperatureConversions)
        => /\ call.out.kind = "return"
           /\ REq(call.out.val, ListedFormula(CallKey, call.value))
           /\ (CallKey = <<<<"c">>, <<"f">>>> /\ REq(call.value, RInt(0)))
                 => REq(call.out.val, RInt(32))
           /\ (CallKey = <<<<"c">>, <<"f">>>> /\ REq(call.value, RInt(100)))
                 => REq(call.out.val, RInt(212))

\* C2's case: convert(100, "c", "f") has returned 212.
C2_Witness ==
    /\ Returned0
    /\ call.value = RInt(100)
    /\ CallKey = <<<<"c">>, <<"f">>>>
    /\ call.out.kind = "return"
    /\ REq(call.out.val, RInt(212))

\* C3: convert raises the unsupported-conversion error if and only if the
\* lower-cased ordered pair is a key of neither dict; nothing is chained
\* through an intermediate unit: convert(x, "ly", "m") raises although
\* ("ly", "km") and ("km", "m") are keys of the linear dict.
C3_RaisesIffNoKey ==
    Returned0
        => /\ (call.out.kind = "raise"
                 <=> FoldedKey(call.from_unit, call.to_unit) \notin Keys)
           /\ call.out.kind = "raise" => call.out.exc = "ValueError"
           /\ FoldedKey(call.from_unit, call.to_unit) = <<<<"l", "y">>, <<"m">>>>
                 => call.out.kind = "raise"

\* C3's case: convert(1, "ly", "m") has raised, both hops being keys.
C3_Witness ==
    /\ Returned0
    /\ call.value = RInt(1)
    /\ CallKey = <<<<"l", "y">>, <<"m">>>>
    /\ call.out.kind = "raise"
    /\ <<<<"l", "y">>, <<"k", "m">>>> \in DOMAIN CONVERSION_FACTORS
    /\ <<<<"k", "m">>, <<"m">>>> \in DOMAIN CONVERSION_FACTORS

\* C4: the error convert raises carries the two unit strings lower-cased,
\* not as typed: its message is "Conversion from '<from_unit>' to
\* '<to_unit>' is not supported." with the normalized strings, the same
\* for ("XX", "yy") as for ("xx", "yy").
C4_NormalizedMessage ==
    (Returned0 /\ call.out.kind = "raise")
        => /\ call.out.msg =
                error_message(Folded(call.from_unit), Folded(call.to_unit))
           /\ FoldedKey(call.from_unit, call.to_unit) = <<<<"x", "x">>, <<"y", "y">>>>
                 => call.out.msg = MessageXxYy

\* C4's case: convert(1, "XX", "yy") has raised with the lower-case message.
C4_Witness ==
    /\ Returned0
    /\ CallKey = <<<<"X", "X">>, <<"y", "y">>>>
    /\ call.out.kind = "raise"
    /\ call.out.msg = MessageXxYy

\* C5: convert(x, U1, U2) has the outcome of convert(x, lower(U1),
\* lower(U2)), the same number or the same error; convert(5, "M", "CM") is
\* 500.  Nothing else is normalized: a unit string with a blank before or
\* after it does not match the key it would be when trimmed.
C5_CaseInsensitive ==
    Returned0
        => /\ call.out = convert(call.value, Folded(call.from_unit),
                                 Folded(call.to_unit))
           /\ (FoldedKey(call.from_unit, call.to_unit) = <<<<"m">>, <<"c", "m">>>>
                 /\ call.value = RInt(5))
                 => (call.out.kind = "return" /\ REq(call.out.val, RInt(500)))
           /\ (strip(call.from_unit) # call.from_unit
                 \/ strip(call.to_unit) # call.to_unit)
                 => call.out.kind = "raise"

\* C5's case: convert(5, "M", "CM") has returned 500.
C5_Witness ==
    /\ Returned0
    /\ call.value = RInt(5)
    /\ CallKey = <<<<"M">>, <<"C", "M">>>>
    /\ call.out.kind = "return"
    /\ REq(call.out.val, RInt(500))

\* C5's other case: " m" to "cm" has raised, "m" to "cm" being a key.
C5_BlankWitness ==
    /\ Returned0
    /\ CallKey = <<<<" ", "m">>, <<"c", "m">>>>
    /\ call.out.kind = "raise"
    /\ <<strip(call.from_unit), call.to_unit>> \in DOMAIN CONVERSION_FACTORS

OneTenThousandth == Lit(1, -4)

\* C8: the round trip through ("m", "ft") and ("ft", "m") is within 0.01%
\* of the value it started from, for 100 as for every value: the product of
\* the two factors differs from 1 by at most 0.0001.
C8_RoundTrip ==
    /\ RLe(RAbs(RSub(RMul(CONVERSION_FACTORS[<<<<"m">>, <<"f", "t">>>>],
                          CONVERSION_FACTORS[<<<<"f", "t">>, <<"m">>>>]),
                     RInt(1))),
           OneTenThousandth)
    /\ (/\ Returned0
        /\ call.hops = 1
        /\ <<call.first.from_unit, call.first.to_unit>> = <<<<"m">>, <<"f", "t">>>>
        /\ call.to_unit = <<"m">>)
        => /\ call.out.kind = "return"
           /\ RLe(RAbs(RSub(call.out.val, call.first.value)),
                  RMul(RAbs(call.first.value), OneTenThousandth))

\* C8's case: convert(convert(100, "m", "ft"), "ft", "m") has returned, and
\* not 100 itself.
C8_Witness ==
    /\ Returned0
    /\ call.hops = 1
    /\ call.first = Args(RInt(100), <<"m">>, <<"f", "t">>)
    /\ CallKey = <<<<"f", "t">>, <<"m">>>>
    /\ call.out.kind = "return"
    /\ ~REq(call.out.val, RInt(100))

\* The dicts with `key` made a key of both: the missing entry added.
WithOverlap(key) ==
    [factors |-> (key :> RInt(2)) @@ CONVERSION_FACTORS,
     temperatures |-> (key :> "c_k") @@ TEMPERATURE_CONVERSIONS]

\* C9: the two dicts have no key in common, and the linear dict is looked
\* up first: were the pair of a call a key of both, convert would return the
\* value times the linear factor and not apply the temperature formula.
C9_DisjointLinearFirst ==
    /\ DOMAIN CONVERSION_FACTORS \cap DOMAIN TEMPERATURE_CONVERSIONS = {}
    /\ (Returned0 /\ FoldedKey(call.from_unit, call.to_unit) \in Keys)
        => LET key == FoldedKey(call.from_unit, call.to_unit)
               both == WithOverlap(key)
               out == convert_in(both.factors, both.temperatures,
                                 call.value, call.from_unit, call.to_unit)
           IN  /\ key \in DOMAIN both.factors \cap DOMAIN both.temperatures
               /\ out.kind = "return"
               /\ REq(out.val, RMul(call.value, both.factors[key]))
               /\ out.lookups = <<LINEAR>>

\* C9's case: a call of a temperature pair has returned; with the pair in
\* the linear dict too, the call returns the linear product instead.
C9_Witness ==
    /\ Returned0
    /\ call.value = RInt(100)
    /\ CallKey = <<<<"c">>, <<"f">>>>
    /\ call.out.kind = "return"
    /\ REq(call.out.val, RInt(212))
    /\ LET both == WithOverlap(CallKey)
       IN  REq(convert_in(both.factors, both.temperatures, call.value,
                          call.from_unit, call.to_unit).val,
               RInt(200))

\* The quantities of the keys a unit code appears in.
QuantitiesOf(unit) == {QuantityOf(k) : k \in {k \in Keys : unit \in {k[1], k[2]}}}

\* C10: each unit code of a successful call appears in keys of one quantity
\* only, so a sequence of successful calls, each fed the previous result and
\* target unit, never carries a value from a unit of one quantity to a unit
\* of another.
C10_OneQuantityPerUnit ==
    (Returned0 /\ call.out.kind = "return")
        => /\ Cardinality(QuantitiesOf(Folded(call.from_unit))) = 1
           /\ Cardinality(QuantitiesOf(Folded(call.to_unit))) = 1
           /\ QuantityOf(FoldedKey(call.from_unit, call.to_unit))
                 = QuantityOf(FoldedKey(call.first.from_unit,
                                        call.first.to_unit))

\* The chain of C10 alone: the quantity of the last pair is the quantity of
\* the first.
C10_NoQuantityCrossing ==
    (Returned0 /\ call.out.kind = "return")
        => QuantityOf(FoldedKey(call.from_unit, call.to_unit))
               = QuantityOf(FoldedKey(call.first.from_unit, call.first.to_unit))

-----------------------------------------------------------------------------
(* The claims, under Spec.                                                 *)

Done(c) == pc[c] = "done"

Unsupported(a) == FoldedKey(a.from_unit, a.to_unit) \notin Keys

\* What a caller was given: a number, an error text, or a handler that the
\* exception left.
Outcome(r) ==
    IF r.kind = "exit"
    THEN IF r.code # 0 THEN [kind |-> "uncaught"]
         ELSE IF r.stdout[1].kind = "result"
         THEN [kind |-> "number", val |-> r.stdout[1].result]
         ELSE [kind |-> "error", msg |-> r.stdout[1].chars]
    ELSE IF r.status # 200 THEN [kind |-> "uncaught"]
         ELSE IF "result" \in DOMAIN r.body
         THEN [kind |-> "number", val |-> r.body.result]
         ELSE [kind |-> "error", msg |-> r.body.error]

\* The outcome of the same call made first, on the dicts as imported.
FirstOutcome(a) ==
    LET out == convert_in(InitialConversionFactors,
                          InitialTemperatureConversions,
                          a.value, a.from_unit, a.to_unit)
    IN  IF out.kind = "return" THEN [kind |-> "number", val |-> out.val]
        ELSE [kind |-> "error", msg |-> out.msg]

\* C6: an unsupported conversion is fatal to neither front end: the CLI
\* prints the message to standard output and exits with code 0, the HTTP
\* handler answers 200 with the body {"error": message}; the exception
\* leaves neither handler.
C6_ErrorNeverFatal ==
    \A c \in Callers :
        (Done(c) /\ Unsupported(req[c]))
            => LET msg == error_message(Folded(req[c].from_unit),
                                        Folded(req[c].to_unit))
               IN  /\ "uncaught" \notin DOMAIN resp[c]
                   /\ resp[c].kind = "exit"
                         => (resp[c].code = 0
                               /\ resp[c].stdout = <<TextLine(msg)>>)
                   /\ resp[c].kind = "response"
                         => (resp[c].status = 200
                               /\ resp[c].body = [error |-> msg])

\* C6's case: the CLI and the HTTP handler have both met convert(1, "ly",
\* "m"), one has printed and exited with 0, the other answered 200.
C6_Witness ==
    \E c1 \in Callers, c2 \in Callers :
        /\ Done(c1) /\ Done(c2)
        /\ req[c1] = Args(RInt(1), <<"l", "y">>, <<"m">>)
        /\ req[c2] = req[c1]
        /\ resp[c1].kind = "exit" /\ resp[c1].code = 0
        /\ resp[c1].stdout[1].kind = "text"
        /\ resp[c2].kind = "response" /\ resp[c2].status = 200
        /\ DOMAIN resp[c2].body = {"error"}

\* C7: whatever calls ran, succeeded or failed, in whatever interleaving,
\* both dicts hold what they held at import, and a call's outcome follows
\* from its three arguments alone: two calls with the same arguments have
\* the same outcome, which is the one the call would have had as the first.
C7_TablesUnchangedOutcomeByArgs ==
    /\ CONVERSION_FACTORS = InitialConversionFactors
    /\ TEMPERATURE_CONVERSIONS = InitialTemperatureConversions
    /\ \A c \in Callers : Done(c) => Outcome(resp[c]) = FirstOutcome(req[c])
    /\ \A c1 \in Callers, c2 \in Callers :
          (Done(c1) /\ Done(c2) /\ req[c1] = req[c2])
              => Outcome(resp[c1]) = Outcome(resp[c2])

\* C7's case: two callers at once, one through each front end, have both
\* been given 32 for convert(0, "c", "f").
C7_Witness ==
    \E c1 \in Callers, c2 \in Callers :
        /\ Done(c1) /\ Done(c2)
        /\ req[c1] = Args(RInt(0), <<"c">>, <<"f">>)
        /\ req[c2] = req[c1]
        /\ resp[c1].kind = "exit"
        /\ resp[c2].kind = "response"
        /\ Outcome(resp[c1]).kind = "number"
        /\ REq(Outcome(resp[c1]).val, RInt(32))
        /\ Outcome(resp[c2]) = Outcome(resp[c1])

=============================================================================
